---- MODULE Spec2Model ----
(***************************************************************************)
(* og-pilot-js: the request-signing and request-execution pipeline.        *)
(*                                                                         *)
(* The model follows src/src/client.ts (Client), src/src/index.ts (the     *)
(* shared default configuration), src/src/errors.ts (the error classes and *)
(* signJwt), the Configuration class of src/unnamed/part_002 and the       *)
(* request context of src/unnamed/part_000.                                *)
(*                                                                         *)
(* JavaScript values are tagged records, so that undefined, null, strings  *)
(* and numbers stay distinct.  A JavaScript string that the code measures  *)
(* or slices (title, iss, sub, apiKey, domain) is a sequence of            *)
(* characters; texts that are only passed along (bodies, header values,    *)
(* message fragments) are TLA+ strings.                                    *)
(***************************************************************************)
EXTENDS Integers, Sequences, FiniteSets, TLC

VARIABLES
    heap,           \* the Configuration instances ever constructed, by identity
    defaultConfig,  \* index.ts: `let defaultConfig`, an identity in heap
    held,           \* the identities the application got from getConfig()
    clients,        \* the Client objects ever constructed: each one's `this.config`
    calls,          \* the createImage calls, one record per call slot
    fallbackRequest,    \* request-context: `let fallbackRequest`
    requests,       \* the HTTP requests the Express application is handling
    asyncLocalStorage,  \* request-context: `let asyncLocalStorage`, by its kind
    alsStore,       \* the store of the AsyncLocalStorage in the running context
    frames          \* the withRequestContext calls whose callback is running

vars == <<heap, defaultConfig, held, clients, calls, fallbackRequest, requests,
          asyncLocalStorage, alsStore, frames>>

(***************************************************************************)
(* Bounds of the model.                                                    *)
(***************************************************************************)
MaxConfigs == 2     \* Configuration instances constructed in one behaviour
MaxClients == 2     \* Client objects constructed in one behaviour
MaxCalls == 2       \* createImage calls that may be in flight together
MaxRequests == 2    \* HTTP requests that may be handled together
MaxDepth == 3       \* withRequestContext calls nested in one another

CallIds == 1..MaxCalls
RequestIds == 1..MaxRequests

(***************************************************************************)
(* JavaScript values.                                                      *)
(***************************************************************************)
Undefined == [t |-> "undefined"]
Null == [t |-> "null"]
Str(s) == [t |-> "string", v |-> s]
Num(n) == [t |-> "number", v |-> n]
\* A number too large for 32 bits, kept as k * 1000 + r + f / 10 with
\* 0 <= r < 1000 and 0 <= f < 10: f is the fractional part, in tenths.
FracNum(k, r, f) == [t |-> "number", k |-> k, r |-> r, f |-> f]
\* a whole number
BigNum(k, r) == FracNum(k, r, 0)
\* A Date, by its epoch milliseconds (getTime()), kept the same way.
DateOf(k, r) == [t |-> "date", k |-> k, r |-> r]
Fn(kind) == [t |-> "function", kind |-> kind]

IsNullish(x) == x.t \in {"undefined", "null"}

\* String(x) for the values the model passes to it.
JsString(x) ==
    CASE x.t = "string" -> x.v
      [] x.t = "undefined" -> <<"u", "n", "d", "e", "f", "i", "n", "e", "d">>
      [] x.t = "null" -> <<"n", "u", "l", "l">>

\* x ?? y
Coalesce(x, y) == IF IsNullish(x) THEN y ELSE x

\* s.slice(0, n) on a sequence of characters
SliceFrom0(s, n) == SubSeq(s, 1, IF Len(s) < n THEN Len(s) ELSE n)

(***************************************************************************)
(* errors.ts: the error classes.  `class` is the constructor, `name` the   *)
(* name property, `message` the parts of the message template in order.    *)
(***************************************************************************)
ConfigurationError(msg) ==
    [class |-> "ConfigurationError", name |-> "ConfigurationError",
     message |-> <<msg>>, status |-> Undefined]

RequestError(msg, status) ==
    [class |-> "RequestError", name |-> "RequestError",
     message |-> msg, status |-> status]

\* new Error(msg), and the errors a runtime raises (TypeError, SyntaxError...)
PlainError(name, msg) ==
    [class |-> "Error", name |-> name, message |-> <<msg>>, status |-> Undefined]

\* a thrown value that is not an Error instance
NonError == [class |-> "NonError", name |-> "", message |-> <<"">>, status |-> Undefined]

InstanceOfRequestError(e) == e.class = "RequestError"
InstanceOfConfigurationError(e) == e.class = "ConfigurationError"
InstanceOfError(e) == e.class # "NonError"

\* the outcome of a step that may throw
Ok(v) == [ok |-> TRUE, value |-> v]
Throw(e) == [ok |-> FALSE, error |-> e]

(***************************************************************************)
(* config.ts (src/unnamed/part_002): the Configuration class.              *)
(***************************************************************************)
\* a URL string, by the components the URL parser finds in it
UrlString(origin, path, query) ==
    [t |-> "string", origin |-> origin, path |-> path, query |-> query]

DEFAULT_BASE_URL == UrlString("https://ogpilot.com", "", "")
DefaultOpenTimeoutMs == 5000
DefaultReadTimeoutMs == 10000

\* options: a record with every key of OgPilotConfigOptions (Undefined when
\* the caller left it out); env: what readEnv returns for the two variables.
Configuration(options, env) ==
    [apiKey |-> Coalesce(options.apiKey, env.OG_PILOT_API_KEY),
     domain |-> Coalesce(options.domain, env.OG_PILOT_DOMAIN),
     baseUrl |-> Coalesce(options.baseUrl, DEFAULT_BASE_URL),
     openTimeoutMs |-> Coalesce(options.openTimeoutMs, Num(DefaultOpenTimeoutMs)),
     readTimeoutMs |-> Coalesce(options.readTimeoutMs, Num(DefaultReadTimeoutMs)),
     fetch |-> options.fetch,
     stripExtensions |-> Coalesce(options.stripExtensions, [t |-> "boolean", v |-> TRUE])]

NoOptions ==
    [apiKey |-> Undefined, domain |-> Undefined, baseUrl |-> Undefined,
     openTimeoutMs |-> Undefined, readTimeoutMs |-> Undefined,
     fetch |-> Undefined, stripExtensions |-> Undefined]

(***************************************************************************)
(* JavaScript objects with string keys: a sequence of <<key, value>> pairs *)
(* in insertion order.  A key that is absent reads as undefined.           *)
(***************************************************************************)
HasKey(obj, key) == \E i \in 1..Len(obj) : obj[i][1] = key

Get(obj, key) ==
    IF HasKey(obj, key)
    THEN obj[CHOOSE i \in 1..Len(obj) : obj[i][1] = key][2]
    ELSE Undefined

\* obj[key] = value: in place when the key exists, appended otherwise
Set(obj, key, value) ==
    IF HasKey(obj, key)
    THEN [i \in 1..Len(obj) |-> IF obj[i][1] = key THEN <<key, value>> ELSE obj[i]]
    ELSE Append(obj, <<key, value>>)

IsDefinedPair(pair) == pair[2] # Undefined

\* JSON.stringify(obj): the members in insertion order, without the keys
\* whose value is undefined
JsonStringify(obj) == [json |-> SelectSeq(obj, IsDefinedPair)]

(***************************************************************************)
(* client.ts: the private helpers of Client, as functions of the           *)
(* Configuration record `config` that this.config refers to.               *)
(***************************************************************************)
ENDPOINT_PATH == "/api/v1/images"
ApiKeyPrefixLength == 8
\* normalizeIat's threshold 100000000000, in thousands
IatMillisThresholdK == 100000000

\* mutant: a missing secret reads as the empty string
ApiKey_EmptyDefault(config) ==
    IF config.apiKey # Undefined /\ config.apiKey # Null
    THEN Ok(config.apiKey)
    ELSE Ok(Str(<<>>))

\* Client.apiKey()
ApiKey(config) ==
    IF config.apiKey # Undefined /\ config.apiKey # Null
    THEN Ok(config.apiKey)
    ELSE Throw(ConfigurationError("OG Pilot API key is missing"))

\* Client.domain()
Domain(config) ==
    IF config.domain # Undefined /\ config.domain # Null
    THEN Ok(config.domain)
    ELSE Throw(ConfigurationError("OG Pilot domain is missing"))

\* Client.apiKeyPrefix()
ApiKeyPrefix(config) ==
    LET key == ApiKey(config)
    IN  IF key.ok
        THEN Ok(Str(SliceFrom0(key.value.v, ApiKeyPrefixLength)))
        ELSE key

\* the integer n, 0 <= n, as a number value
NumberOf(n) == BigNum(n \div 1000, n % 1000)

\* Math.floor(x / 1000): k is the floor of (k * 1000 + r + f / 10) / 1000
FloorDiv1000(x) == NumberOf(x.k)

\* Math.floor(x)
Floor(x) == BigNum(x.k, x.r)

\* x > 100000000000
AboveIatThreshold(x) ==
    \/ x.k > IatMillisThresholdK
    \/ x.k = IatMillisThresholdK /\ (x.r > 0 \/ x.f > 0)

\* mutant: a value of exactly the threshold counts as milliseconds
NormalizeIat_Inclusive(iat) ==
    IF iat.t = "date"
    THEN FloorDiv1000(iat)
    ELSE IF iat.k >= IatMillisThresholdK
         THEN FloorDiv1000(iat)
         ELSE Floor(iat)

\* normalizeIat(iat)
NormalizeIat(iat) ==
    IF iat.t = "date"
    THEN FloorDiv1000(iat)
    ELSE IF AboveIatThreshold(iat)
         THEN FloorDiv1000(iat)
         ELSE Floor(iat)

\* mutant: the empty string counts as present
IsMissing_NullishOnly(payload, key) ==
    \/ Get(payload, key) = Undefined
    \/ Get(payload, key) = Null

IsMissing(payload, key) ==
    \/ Get(payload, key) = Undefined
    \/ Get(payload, key) = Null
    \/ Len(JsString(Get(payload, key))) = 0

\* mutant: the title is not checked
ValidatePayload_NoTitle(payload) ==
    IF IsMissing_NullishOnly(payload, "iss") \/ Len(JsString(Get(payload, "iss"))) = 0
    THEN Throw(ConfigurationError("OG Pilot domain is missing"))
    ELSE IF IsMissing_NullishOnly(payload, "sub") \/ Len(JsString(Get(payload, "sub"))) = 0
    THEN Throw(ConfigurationError("OG Pilot API key prefix is missing"))
    ELSE Ok(payload)

\* Client.validatePayload(payload)
ValidatePayload(payload) ==
    IF IsMissing(payload, "iss")
    THEN Throw(ConfigurationError("OG Pilot domain is missing"))
    ELSE IF IsMissing(payload, "sub")
    THEN Throw(ConfigurationError("OG Pilot API key prefix is missing"))
    ELSE IF IsMissing(payload, "title")
    THEN Throw(PlainError("Error", "OG Pilot title is required"))
    ELSE Ok(payload)

\* Client.buildPayload(params, iat)
BuildPayload(config, params, iat) ==
    LET copied == params
        withIat == IF iat # Undefined /\ iat # Null
                   THEN Set(copied, "iat", NormalizeIat(iat))
                   ELSE copied
        issMissing == Get(withIat, "iss") = Undefined \/ Get(withIat, "iss") = Null
        dom == Domain(config)
        subMissing == Get(withIat, "sub") = Undefined \/ Get(withIat, "sub") = Null
        prefix == ApiKeyPrefix(config)
    IN  IF issMissing /\ ~dom.ok
        THEN dom
        ELSE LET withIss == IF issMissing THEN Set(withIat, "iss", dom.value) ELSE withIat
             IN  IF subMissing /\ ~prefix.ok
                 THEN prefix
                 ELSE LET withSub == IF subMissing
                                     THEN Set(withIss, "sub", prefix.value)
                                     ELSE withIss
                      IN  ValidatePayload(withSub)

\* Client.totalTimeoutMs()
TotalTimeoutMs(config) ==
    IF config.openTimeoutMs = Undefined /\ config.readTimeoutMs = Undefined
    THEN Undefined
    ELSE LET open == IF config.openTimeoutMs.t = "number" THEN config.openTimeoutMs.v ELSE 0
             read == IF config.readTimeoutMs.t = "number" THEN config.readTimeoutMs.v ELSE 0
         IN  Num(open + read)

\* mutant: the deadline is computed but no timer is set
ArmsTimer_Never(timeoutMs) == FALSE

\* `timeoutMs && timeoutMs > 0`
ArmsTimer(timeoutMs) == timeoutMs # Undefined /\ timeoutMs.v # 0 /\ timeoutMs.v > 0

(***************************************************************************)
(* jwt (src/src/errors.ts, lines 25-87): signJwt.  base64url and HMAC are  *)
(* kept symbolic: both are functions of exactly their arguments.           *)
(***************************************************************************)
JwtHeader == <<<<"alg", Str("HS256")>>, <<"typ", Str("JWT")>>>>

Base64UrlEncode(x) == [b64url |-> x]

HmacSha256(data, secret) == [hmac |-> data, key |-> secret]

SigningInput(payload) ==
    <<Base64UrlEncode(JsonStringify(JwtHeader)), Base64UrlEncode(JsonStringify(payload))>>

\* mutant: the signature covers the claims segment only
SignJwt_ClaimsOnly(payload, secret) ==
    [t |-> "string",
     segments |-> <<SigningInput(payload)[1], SigningInput(payload)[2],
                    Base64UrlEncode(HmacSha256(<<SigningInput(payload)[2]>>, secret))>>]

\* signJwt(payload, secret): header.payload.signature
SignJwt(payload, secret) ==
    [t |-> "string",
     segments |-> <<SigningInput(payload)[1], SigningInput(payload)[2],
                    Base64UrlEncode(HmacSha256(SigningInput(payload), secret))>>]

\* the claims a token carries
TokenClaims(token) == token.segments[2].b64url.json

(***************************************************************************)
(* URLs: new URL(ENDPOINT_PATH, baseUrl), searchParams.set, toString.      *)
(* A URL is kept by its components; the query is a sequence of pairs.      *)
(***************************************************************************)
\* mutant: the base's path prefix is kept in front of the path
NewUrl_KeepsPrefix(path, base) ==
    [origin |-> base.origin, path |-> base.path \o path, query |-> <<>>]

\* new URL(path, base) for an absolute path: the base's origin, the path,
\* and none of the base's path or query
NewUrl(path, base) == [origin |-> base.origin, path |-> path, query |-> <<>>]

SearchParamsSet(url, key, value) == [url EXCEPT !.query = Set(url.query, key, value)]

UrlToString(url) == [t |-> "string", href |-> <<url.origin, url.path, url.query>>]

\* texts that the code only passes along
Text(s) == [t |-> "string", text |-> s]

\* JSON.parse(text), for the body texts of the model
JsonParse(text) ==
    CASE text = "{\"ok\":true}" -> Ok([t |-> "object", members |-> <<<<"ok", TRUE>>>>])
      [] text = "null" -> Ok(Null)
      [] OTHER -> Throw(PlainError("SyntaxError", "Unexpected token"))

(***************************************************************************)
(* One createImage call.  pc is the await the call is suspended at:        *)
(*   "signing"   await signJwt(...) in buildUrl (the Web Crypto calls)     *)
(*   "built"     await this.buildUrl(...) in createImage                   *)
(*   "fetching"  await fetchImpl(...) in request                           *)
(*   "errBody"   await response.text().catch(...) in request               *)
(*   "jsonBody"  await response.text() in createImage                      *)
(*   "done"      the promise createImage returned has settled              *)
(* config0, signed, request, rejection, response and body are history:     *)
(* the configuration the call found when it started, what it handed to     *)
(* signJwt and to the transport, and what the transport and the body read  *)
(* settled with.  params is the argument as it was passed, callerParams    *)
(* the caller's object once buildPayload has run.                          *)
(***************************************************************************)
Pending == [state |-> "pending"]
Resolved(v) == [state |-> "resolved", value |-> v]
Rejected(e) == [state |-> "rejected", error |-> e]

IdleCall ==
    [pc |-> "idle", client |-> 0, params |-> <<>>, callerParams |-> <<>>,
     json |-> FALSE, iat |-> Undefined,
     headers |-> <<>>, config0 |-> Undefined, signed |-> Undefined, secret |-> Undefined,
     url |-> Undefined, request |-> Undefined, timeoutMs |-> Undefined,
     timer |-> "none", aborted |-> FALSE, rejection |-> Undefined,
     response |-> Undefined, body |-> Undefined, outcome |-> Pending]

Obj(members) == [t |-> "object", members |-> members]

\* mutant: the client looks the shared default up at each use
ThisConfig_Lookup(k) == heap[defaultConfig]

\* this.config of client k: the Configuration it was constructed with
ThisConfig(k) == heap[clients[k]]

\* this.config, for the client of call c
ConfigOf(c) == ThisConfig(calls[c].client)

\* mutant: no finally block
ClearTimeout_Leak(timer) == timer

\* the finally block of request: `if (timeoutId) clearTimeout(timeoutId)`
ClearTimeout(timer) == IF timer = "armed" THEN "cleared" ELSE timer

\* mutant: an abort is reported like any other failure
CatchRequest_NoTimeout(error) ==
    IF InstanceOfRequestError(error)
    THEN error
    ELSE IF InstanceOfError(error)
    THEN RequestError(<<"OG Pilot request failed: ">> \o error.message, Undefined)
    ELSE RequestError(<<"OG Pilot request failed.">>, Undefined)

\* the catch block of request
CatchRequest(error) ==
    IF InstanceOfRequestError(error)
    THEN error
    ELSE IF InstanceOfError(error) /\ error.name = "AbortError"
    THEN RequestError(<<"OG Pilot request timed out: ">> \o error.message, Undefined)
    ELSE IF InstanceOfError(error)
    THEN RequestError(<<"OG Pilot request failed: ">> \o error.message, Undefined)
    ELSE RequestError(<<"OG Pilot request failed.">>, Undefined)

\* the status >= 400 branch of request, once the body text is known
StatusError(status, body) ==
    RequestError(<<"OG Pilot request failed with status ", status, ": ", body>>, Num(status))

\* the last line of createImage
LocationOf(response, url) ==
    Coalesce(Coalesce(response.location, response.url), UrlToString(url))

\* the headers request() sends: Accept when json, then the caller's on top
RequestHeaders(json, headers) ==
    LET base == IF json THEN <<<<"Accept", "application/json">>>> ELSE <<>>
        AddAll[i \in 0..Len(headers)] ==
            IF i = 0 THEN base ELSE Set(AddAll[i - 1], headers[i][1], headers[i][2])
    IN  AddAll[Len(headers)]

\* mutant: the payload is the caller's object itself
ParamsAfterBuild_Aliased(params, built) == IF built.ok THEN built.value ELSE params

\* the caller's object after buildPayload: `{ ...params }` makes payload a
\* fresh object, and buildPayload writes to payload only
ParamsAfterBuild(params, built) == params

\* createImage(params, options) on client k, whose this.config is `config`,
\* up to its first await: the call's record.  subtle: whether
\* globalThis.crypto.subtle exists.
StartCall(k, config, params, options, subtle) ==
    LET built == BuildPayload(config, params, options.iat)
        started == [IdleCall EXCEPT !.client = k, !.params = params,
                                    !.callerParams = ParamsAfterBuild(params, built),
                                    !.json = Coalesce(options.json, [t |-> "boolean", v |-> FALSE]).v,
                                    !.iat = options.iat,
                                    !.headers = Coalesce(options.headers, Obj(<<>>)).members,
                                    !.config0 = config]
        key == ApiKey(config)
    IN  IF ~built.ok
        THEN [started EXCEPT !.pc = "done", !.outcome = Rejected(built.error)]
        ELSE IF ~key.ok
        THEN [started EXCEPT !.pc = "done", !.outcome = Rejected(key.error)]
        ELSE IF ~subtle
        THEN [started EXCEPT !.pc = "done", !.signed = Obj(built.value),
                             !.secret = key.value,
                             !.outcome = Rejected(PlainError("Error",
                                 "Web Crypto API is not available; requires a Node 18+ or Edge runtime."))]
        ELSE [started EXCEPT !.pc = "signing", !.signed = Obj(built.value),
                             !.secret = key.value]

\* client.createImage(params, options) on an existing client
CreateImage(c, k, params, options, subtle) ==
    /\ calls[c].pc = "idle"
    /\ k \in 1..Len(clients)
    /\ calls' = [calls EXCEPT ![c] = StartCall(k, ThisConfig(k), params, options, subtle)]
    /\ UNCHANGED <<heap, defaultConfig, held, clients, fallbackRequest, requests, asyncLocalStorage, alsStore, frames>>

\* index.ts createImage: client().createImage(params, options)
DefaultCreateImage(c, params, options, subtle) ==
    /\ calls[c].pc = "idle"
    /\ Len(clients) < MaxClients
    /\ clients' = Append(clients, defaultConfig)
    /\ calls' = [calls EXCEPT ![c] =
           StartCall(Len(clients) + 1, heap[defaultConfig], params, options, subtle)]
    /\ UNCHANGED <<heap, defaultConfig, held, fallbackRequest, requests, asyncLocalStorage, alsStore, frames>>

\* mutant: the signing key is read when the Web Crypto calls complete
SignResolve_LateSecret(c) ==
    /\ calls[c].pc = "signing"
    /\ LET token == SignJwt(calls[c].signed.members, ConfigOf(c).apiKey.v)
           url == NewUrl(ENDPOINT_PATH, ConfigOf(c).baseUrl)
       IN  calls' = [calls EXCEPT ![c].pc = "built",
                                  ![c].url = SearchParamsSet(url, "token", token)]
    /\ UNCHANGED <<heap, defaultConfig, held, clients, fallbackRequest, requests, asyncLocalStorage, alsStore, frames>>

\* The Web Crypto calls of hmacSha256 complete; signJwt returns the token and
\* buildUrl goes on to its end.
SignResolve(c) ==
    /\ calls[c].pc = "signing"
    /\ LET token == SignJwt(calls[c].signed.members, calls[c].secret.v)
           url == NewUrl(ENDPOINT_PATH, ConfigOf(c).baseUrl)
       IN  calls' = [calls EXCEPT ![c].pc = "built",
                                  ![c].url = SearchParamsSet(url, "token", token)]
    /\ UNCHANGED <<heap, defaultConfig, held, clients, fallbackRequest, requests, asyncLocalStorage, alsStore, frames>>

\* A Web Crypto call rejects (importKey or sign): the error reaches the
\* caller as it is.
SignReject(c, error) ==
    /\ calls[c].pc = "signing"
    /\ calls' = [calls EXCEPT ![c].pc = "done", ![c].outcome = Rejected(error)]
    /\ UNCHANGED <<heap, defaultConfig, held, clients, fallbackRequest, requests, asyncLocalStorage, alsStore, frames>>

\* createImage resumes after buildUrl and runs request() up to
\* `await fetchImpl(...)`.  ambient: the global fetch, or Undefined.
StartRequest(c, ambient) ==
    /\ calls[c].pc = "built"
    /\ LET config == ConfigOf(c)
           fetchImpl == Coalesce(config.fetch, ambient)
           timeoutMs == TotalTimeoutMs(config)
           init == [method |-> "GET",
                    headers |-> RequestHeaders(calls[c].json, calls[c].headers),
                    redirect |-> "manual", signal |-> c]
       IN  calls' = [calls EXCEPT ![c] =
             IF fetchImpl = Undefined
             THEN [@ EXCEPT !.pc = "done",
                            !.outcome = Rejected(ConfigurationError(
                                "Fetch API is not available; provide a fetch implementation in the configuration."))]
             ELSE [@ EXCEPT !.pc = "fetching",
                            !.timeoutMs = timeoutMs,
                            !.timer = IF ArmsTimer(timeoutMs) THEN "armed" ELSE "none",
                            !.request = [fetch |-> fetchImpl,
                                         url |-> UrlToString(calls[c].url),
                                         init |-> init]]]
    /\ UNCHANGED <<heap, defaultConfig, held, clients, fallbackRequest, requests, asyncLocalStorage, alsStore, frames>>

\* what a fetch implementation does with the abort signal:
\*   "fetch"  the Fetch standard: settles on its own, or rejects with an
\*            AbortError once the signal has fired
\*   "hang"   never settles on its own; rejects with an AbortError once the
\*            signal has fired
\*   "stub"   ignores the signal; settles when it likes, or never
HonoursAbort(fetchImpl) == fetchImpl.kind \in {"fetch", "hang"}
SettlesAlone(call) ==
    \/ call.request.fetch.kind = "stub"
    \/ call.request.fetch.kind = "fetch" /\ ~call.aborted

AbortError == PlainError("AbortError", "This operation was aborted")

\* request() after a rejection of fetchImpl: catch, then finally
AfterReject(call, error) ==
    [call EXCEPT !.pc = "done", !.rejection = error,
                 !.timer = ClearTimeout(call.timer),
                 !.outcome = Rejected(CatchRequest(error))]

\* mutant: in json mode the timer is left armed while the body is read
AfterResponse_LateDisarm(call, response) ==
    IF response.status >= 400
    THEN [call EXCEPT !.pc = "errBody", !.response = response]
    ELSE IF call.json
    THEN [call EXCEPT !.pc = "jsonBody", !.response = response]
    ELSE [call EXCEPT !.pc = "done", !.response = response,
                      !.timer = ClearTimeout(call.timer),
                      !.outcome = Resolved(LocationOf(response, call.url))]

\* request() after fetchImpl resolved, and createImage after request()
AfterResponse(call, response) ==
    IF response.status >= 400
    THEN [call EXCEPT !.pc = "errBody", !.response = response]
    ELSE IF call.json
    THEN [call EXCEPT !.pc = "jsonBody", !.response = response,
                      !.timer = ClearTimeout(call.timer)]
    ELSE [call EXCEPT !.pc = "done", !.response = response,
                      !.timer = ClearTimeout(call.timer),
                      !.outcome = Resolved(LocationOf(response, call.url))]

\* the promise of fetchImpl resolves with a response
TransportResolve(c, response) ==
    /\ calls[c].pc = "fetching"
    /\ SettlesAlone(calls[c])
    /\ calls' = [calls EXCEPT ![c] = AfterResponse(calls[c], response)]
    /\ UNCHANGED <<heap, defaultConfig, held, clients, fallbackRequest, requests, asyncLocalStorage, alsStore, frames>>

\* the promise of fetchImpl rejects on its own (a network failure)
TransportReject(c, error) ==
    /\ calls[c].pc = "fetching"
    /\ SettlesAlone(calls[c])
    /\ calls' = [calls EXCEPT ![c] = AfterReject(calls[c], error)]
    /\ UNCHANGED <<heap, defaultConfig, held, clients, fallbackRequest, requests, asyncLocalStorage, alsStore, frames>>

\* the promise of fetchImpl rejects because its signal has fired
TransportAbort(c) ==
    /\ calls[c].pc = "fetching"
    /\ calls[c].aborted
    /\ HonoursAbort(calls[c].request.fetch)
    /\ calls' = [calls EXCEPT ![c] = AfterReject(calls[c], AbortError)]
    /\ UNCHANGED <<heap, defaultConfig, held, clients, fallbackRequest, requests, asyncLocalStorage, alsStore, frames>>

\* mutant: one AbortController serves every request
TimerFire_SharedController(c) ==
    /\ calls[c].timer = "armed"
    /\ calls' = [d \in CallIds |->
                     IF d = c
                     THEN [calls[d] EXCEPT !.timer = "fired", !.aborted = TRUE]
                     ELSE IF calls[d].pc = "fetching"
                     THEN [calls[d] EXCEPT !.aborted = TRUE]
                     ELSE calls[d]]
    /\ UNCHANGED <<heap, defaultConfig, held, clients, fallbackRequest, requests, asyncLocalStorage, alsStore, frames>>

\* the callback of setTimeout: controller.abort()
TimerFire(c) ==
    /\ calls[c].timer = "armed"
    /\ calls' = [calls EXCEPT ![c].timer = "fired", ![c].aborted = TRUE]
    /\ UNCHANGED <<heap, defaultConfig, held, clients, fallbackRequest, requests, asyncLocalStorage, alsStore, frames>>

\* mutant: a failure of the body read is thrown in place of the status error
AfterErrBody_Propagates(call, read) ==
    [call EXCEPT !.pc = "done", !.body = read,
                 !.timer = ClearTimeout(call.timer),
                 !.outcome = Rejected(CatchRequest(
                     IF read.ok THEN StatusError(call.response.status, read.value)
                     ELSE read.error))]

\* request() after `await response.text().catch(() => "")`: read is what
\* text() settled with
AfterErrBody(call, read) ==
    LET body == IF read.ok THEN read.value ELSE ""
        thrown == StatusError(call.response.status, body)
    IN  [call EXCEPT !.pc = "done", !.body = read,
                     !.timer = ClearTimeout(call.timer),
                     !.outcome = Rejected(CatchRequest(thrown))]

ErrBodyRead(c, read) ==
    /\ calls[c].pc = "errBody"
    /\ calls' = [calls EXCEPT ![c] = AfterErrBody(calls[c], read)]
    /\ UNCHANGED <<heap, defaultConfig, held, clients, fallbackRequest, requests, asyncLocalStorage, alsStore, frames>>

\* mutant: a parse failure is wrapped as a RequestError
AfterJsonBody_Wrapped(call, read) ==
    [call EXCEPT !.pc = "done", !.body = read,
                 !.outcome = IF ~read.ok
                             THEN Rejected(read.error)
                             ELSE IF JsonParse(read.value).ok
                             THEN Resolved(JsonParse(read.value).value)
                             ELSE Rejected(CatchRequest(JsonParse(read.value).error))]

\* createImage after `await response.text()` in json mode
AfterJsonBody(call, read) ==
    [call EXCEPT !.pc = "done", !.body = read,
                 !.outcome = IF ~read.ok
                             THEN Rejected(read.error)
                             ELSE IF JsonParse(read.value).ok
                             THEN Resolved(JsonParse(read.value).value)
                             ELSE Rejected(JsonParse(read.value).error)]

JsonBodyRead(c, read) ==
    /\ calls[c].pc = "jsonBody"
    /\ calls' = [calls EXCEPT ![c] = AfterJsonBody(calls[c], read)]
    /\ UNCHANGED <<heap, defaultConfig, held, clients, fallbackRequest, requests, asyncLocalStorage, alsStore, frames>>

\* the caller has taken the settled promise; the slot serves another call
Return(c) ==
    /\ calls[c].pc = "done"
    /\ calls' = [calls EXCEPT ![c] = IdleCall]
    /\ UNCHANGED <<heap, defaultConfig, held, clients, fallbackRequest, requests, asyncLocalStorage, alsStore, frames>>

(***************************************************************************)
(* index.ts: the shared default configuration, and the Client constructor. *)
(***************************************************************************)
\* an updater function, by the fields it assigns
ApplyUpdater(config, updater) ==
    [f \in DOMAIN config |-> IF f \in DOMAIN updater THEN updater[f] ELSE config[f]]

\* configure(updater)
Configure(updater) ==
    /\ heap' = [heap EXCEPT ![defaultConfig] = ApplyUpdater(@, updater)]
    /\ UNCHANGED <<defaultConfig, held, clients, calls, fallbackRequest, requests, asyncLocalStorage, alsStore, frames>>

\* resetConfig()
ResetConfig(env) ==
    /\ Len(heap) < MaxConfigs
    /\ heap' = Append(heap, Configuration(NoOptions, env))
    /\ defaultConfig' = Len(heap) + 1
    /\ UNCHANGED <<held, clients, calls, fallbackRequest, requests, asyncLocalStorage, alsStore, frames>>

\* getConfig(): the application keeps the instance it returns
GetConfig ==
    /\ defaultConfig \notin held
    /\ held' = held \cup {defaultConfig}
    /\ UNCHANGED <<heap, defaultConfig, clients, calls, fallbackRequest, requests, asyncLocalStorage, alsStore, frames>>

\* the application assigns fields of an instance it kept
UpdateHeld(id, updater) ==
    /\ id \in held
    /\ heap' = [heap EXCEPT ![id] = ApplyUpdater(@, updater)]
    /\ UNCHANGED <<defaultConfig, held, clients, calls, fallbackRequest, requests, asyncLocalStorage, alsStore, frames>>

\* new Client(config): `config instanceof Configuration ? config : new Configuration(config)`
\* argument: [instance |-> id] for a Configuration, [options |-> o] otherwise
ClientConfig(argument, nextId) ==
    IF "instance" \in DOMAIN argument THEN argument.instance ELSE nextId

\* client()
DefaultClient ==
    /\ Len(clients) < MaxClients
    /\ clients' = Append(clients, ClientConfig([instance |-> defaultConfig], Len(heap) + 1))
    /\ UNCHANGED <<heap, defaultConfig, held, calls, fallbackRequest, requests, asyncLocalStorage, alsStore, frames>>

\* createClient(options)
CreateClient(options, env) ==
    /\ Len(clients) < MaxClients
    /\ Len(heap) < MaxConfigs
    /\ heap' = Append(heap, Configuration(options, env))
    /\ clients' = Append(clients, ClientConfig([options |-> options], Len(heap) + 1))
    /\ UNCHANGED <<defaultConfig, held, calls, fallbackRequest, requests, asyncLocalStorage, alsStore, frames>>

(***************************************************************************)
(* request-context (src/unnamed/part_000): the ambient current request.    *)
(* A request of the application is "idle" (its slot is free) or "handling" *)
(* (the middleware has run and the route handler has not returned); seen   *)
(* is what the handler's last getCurrentPath() call returned.              *)
(***************************************************************************)
NotCalled == [t |-> "not called"]

IdleRequest == [pc |-> "idle", req |-> Undefined, seen |-> NotCalled]

\* whether a string or undefined is truthy
Truthy(x) == x.t = "string" /\ x.text # ""

\* x || y
OrElse(x, y) == IF Truthy(x) THEN x ELSE y

\* the RequestInfo createExpressMiddleware builds from req
RequestInfoOf(req) ==
    [t |-> "object",
     url |-> OrElse(req.originalUrl, req.url),
     path |-> OrElse(req.originalUrl, req.url)]

\* getAsyncLocalStorage(): the storage, created at the first call; asyncHooks
\* is whether require("async_hooks") succeeds then
GetAsyncLocalStorage(asyncHooks) ==
    IF asyncLocalStorage = "null"
    THEN IF asyncHooks THEN "AsyncLocalStorage" ELSE "fallback"
    ELSE asyncLocalStorage

\* storage.getStore(): the store of the innermost run() around the running
\* code (undefined outside of any run) with AsyncLocalStorage, the shared
\* variable with the fallback storage
GetStore(storage) == IF storage = "AsyncLocalStorage" THEN alsStore ELSE fallbackRequest

\* getCurrentRequest()
GetCurrentRequest(asyncHooks) ==
    Coalesce(GetStore(GetAsyncLocalStorage(asyncHooks)), fallbackRequest)

\* extractPathFromUrl(url), for the URLs of the model: an absolute URL
\* gives its path and query, any other string gives itself
ExtractPathFromUrl(url) ==
    IF url = Text("https://app.example.com/a?x=1") THEN Text("/a?x=1") ELSE url

\* getCurrentPath(); envPath is what getPathFromEnv() returns
GetCurrentPath(asyncHooks, envPath) ==
    LET request == GetCurrentRequest(asyncHooks)
    IN  IF request # Undefined /\ Truthy(request.path)
        THEN request.path
        ELSE IF request # Undefined /\ Truthy(request.url)
        THEN ExtractPathFromUrl(request.url)
        ELSE envPath

\* the middleware of createExpressMiddleware() runs for a request that has
\* arrived: setCurrentRequest(...), then next(), which enters the handler
ExpressMiddleware(r, req) ==
    /\ requests[r].pc = "idle"
    /\ fallbackRequest' = RequestInfoOf(req)
    /\ requests' = [requests EXCEPT ![r] = [pc |-> "handling", req |-> req, seen |-> NotCalled]]
    /\ UNCHANGED <<heap, defaultConfig, held, clients, calls, asyncLocalStorage, alsStore, frames>>

\* the handler of request r, at once or resumed after an await, calls
\* getCurrentPath()
HandlerGetCurrentPath(r, asyncHooks, envPath) ==
    /\ requests[r].pc = "handling"
    /\ requests' = [requests EXCEPT ![r].seen = GetCurrentPath(asyncHooks, envPath)]
    /\ asyncLocalStorage' = GetAsyncLocalStorage(asyncHooks)
    /\ UNCHANGED <<heap, defaultConfig, held, clients, calls, fallbackRequest, alsStore, frames>>

\* setCurrentRequest(request)
SetCurrentRequest(request) ==
    /\ fallbackRequest' = request
    /\ UNCHANGED <<heap, defaultConfig, held, clients, calls, requests,
                   asyncLocalStorage, alsStore, frames>>

\* clearCurrentRequest()
ClearCurrentRequest ==
    /\ fallbackRequest' = Undefined
    /\ UNCHANGED <<heap, defaultConfig, held, clients, calls, requests,
                   asyncLocalStorage, alsStore, frames>>

\* mutant: the fallback storage restores the variable after a return only
RunFinally_ReturnOnly(frame, threw) == IF threw THEN fallbackRequest ELSE frame.prev

\* the fallback storage's `finally { fallbackRequest = prev }`
RunFinally(frame, threw) == frame.prev

\* withRequestContext(request, callback) up to the call of callback.  The
\* frame keeps `prev` (the fallback storage's local, or the store
\* AsyncLocalStorage goes back to) and, as history, what getCurrentRequest()
\* returned just before the call.
WithRequestContext(request, asyncHooks) ==
    /\ Len(frames) < MaxDepth
    /\ LET storage == GetAsyncLocalStorage(asyncHooks)
       IN  /\ asyncLocalStorage' = storage
           /\ frames' = Append(frames,
                  [request |-> request,
                   prev |-> GetStore(storage),
                   before |-> GetCurrentRequest(asyncHooks)])
           /\ IF storage = "fallback"
              THEN fallbackRequest' = request /\ alsStore' = alsStore
              ELSE alsStore' = request /\ fallbackRequest' = fallbackRequest
    /\ UNCHANGED <<heap, defaultConfig, held, clients, calls, requests>>

\* the callback of the innermost withRequestContext call returns or throws,
\* and run() with it
CallbackExit(threw) ==
    /\ frames # <<>>
    /\ LET frame == frames[Len(frames)]
       IN  IF asyncLocalStorage = "fallback"
           THEN fallbackRequest' = RunFinally(frame, threw) /\ alsStore' = alsStore
           ELSE alsStore' = frame.prev /\ fallbackRequest' = fallbackRequest
    /\ frames' = SubSeq(frames, 1, Len(frames) - 1)
    /\ UNCHANGED <<heap, defaultConfig, held, clients, calls, requests, asyncLocalStorage>>

\* the handler of request r returns; the slot serves another request
HandlerReturn(r) ==
    /\ requests[r].pc = "handling"
    /\ requests' = [requests EXCEPT ![r] = IdleRequest]
    /\ UNCHANGED <<heap, defaultConfig, held, clients, calls, fallbackRequest, asyncLocalStorage, alsStore, frames>>

(***************************************************************************)
(* The inputs the specifications draw from.                                *)
(***************************************************************************)
Bool(b) == [t |-> "boolean", v |-> b]

KeyLong == <<"s", "k", "_", "l", "i", "v", "e", "_", "1", "2">>
KeyOther == <<"s", "k", "_", "t", "e", "s", "t", "_", "9">>
DomainName == <<"a", ".", "c", "o">>

\* process.env at the time a Configuration is constructed
Envs ==
    {[OG_PILOT_API_KEY |-> Undefined, OG_PILOT_DOMAIN |-> Undefined],
     [OG_PILOT_API_KEY |-> Str(KeyLong), OG_PILOT_DOMAIN |-> Str(DomainName)]}

\* { title, iss, sub } with the keys left out whose value is undefined
ParamsOf(title, iss, sub) ==
    SelectSeq(<<<<"title", title>>, <<"iss", iss>>, <<"sub", sub>>>>, IsDefinedPair)

TitleInputs == {Undefined, Null, Str(<<>>), Str(<<"x">>)}
IssInputs == {Undefined, Null, Str(<<>>), Str(<<"i", "s">>)}
SubInputs == {Undefined, Str(<<>>), Str(<<"m", "e">>)}

AllParams == {ParamsOf(t, i, s) : t \in TitleInputs, i \in IssInputs, s \in SubInputs}
ValidParams == ParamsOf(Str(<<"x">>), Undefined, Undefined)

OptionsOf(json, iat) == [json |-> json, iat |-> iat, headers |-> Undefined]
AllOptions == {OptionsOf(j, Undefined) : j \in {Undefined, Bool(TRUE)}}
                  \cup {OptionsOf(Undefined, BigNum(1700000, 0))}

ResponseOf(status, location, url) ==
    [t |-> "response", status |-> status, location |-> location, url |-> url]

\* headers.get("location") is null or a string; response.url is a string,
\* empty when the response has none (undefined only for an object that is
\* not a Response)
LocationInputs == {Null, Text(""), Text("https://example.com/img.png")}
ResponseUrlInputs == {Undefined, Text(""), Text("https://ogpilot.com/final")}

AllResponses ==
    {ResponseOf(s, l, u) : s \in {200, 302}, l \in LocationInputs, u \in ResponseUrlInputs}
        \cup {ResponseOf(s, Null, Text("")) : s \in {400, 500}}

\* what response.text() settles with
BodyReads ==
    {Ok(b) : b \in {"{\"ok\":true}", "null", "boom", ""}}
        \cup {Throw(PlainError("TypeError", "Body is unusable"))}

\* what a transport rejects with on its own
NetworkErrors == {PlainError("TypeError", "fetch failed"), NonError}
StubErrors == NetworkErrors \cup {AbortError}

CryptoErrors == {PlainError("OperationError", "The operation failed")}

AllIdle == \A c \in CallIds : calls[c].pc = "idle"

(***************************************************************************)
(* Spec: one client of the shared configuration, one call at a time (in    *)
(* any of the call slots), over                                            *)
(* every configuration of secret, issuer and transport, every params and   *)
(* every response.  The configuration changes only between calls.          *)
(***************************************************************************)
SeqUpdaters ==
    {[apiKey |-> v] : v \in {Undefined, Null, Str(<<>>), Str(KeyLong)}}
        \cup {[domain |-> v] : v \in {Undefined, Null, Str(<<>>), Str(DomainName)}}
        \cup {[fetch |-> v] : v \in {Undefined, Fn("stub")}}

Init ==
    /\ \E env \in Envs : heap = <<Configuration(NoOptions, env)>>
    /\ defaultConfig = 1
    /\ held = {}
    /\ clients = <<>>
    /\ calls = [c \in CallIds |-> IdleCall]
    /\ fallbackRequest = Undefined
    /\ requests = [r \in RequestIds |-> IdleRequest]
    /\ asyncLocalStorage = "null"
    /\ alsStore = Undefined
    /\ frames = <<>>

Next ==
    \/ \E u \in SeqUpdaters : AllIdle /\ Configure(u)
    \/ Len(clients) = 0 /\ DefaultClient
    \/ \E c \in CallIds :
        \/ \E p \in AllParams, o \in AllOptions, subtle \in BOOLEAN :
               AllIdle /\ CreateImage(c, 1, p, o, subtle)
        \/ SignResolve(c)
        \/ \E e \in CryptoErrors : SignReject(c, e)
        \/ \E ambient \in {Undefined, Fn("fetch")} : StartRequest(c, ambient)
        \/ \E r \in AllResponses : TransportResolve(c, r)
        \/ \E e \in StubErrors : TransportReject(c, e)
        \/ TransportAbort(c)
        \/ TimerFire(c)
        \/ \E read \in BodyReads : ErrBodyRead(c, read)
        \/ \E read \in BodyReads : JsonBodyRead(c, read)
        \/ Return(c)

Spec == Init /\ [][Next]_vars

(***************************************************************************)
(* What the claims speak of.                                               *)
(***************************************************************************)
Started(c) == calls[c].pc # "idle"
Settled(c) == calls[c].pc = "done"
Failed(c) == Settled(c) /\ calls[c].outcome.state = "rejected"
SignerInvoked(c) == calls[c].signed # Undefined
TransportInvoked(c) == calls[c].request # Undefined

\* absent, null or the empty string
Empty(value) == value = Undefined \/ value = Null \/ value = Str(<<>>)
NoTitle(params) == Empty(Get(params, "title"))

IsValidationError(e) ==
    /\ ~InstanceOfConfigurationError(e)
    /\ ~InstanceOfRequestError(e)
    /\ e.message = <<"OG Pilot title is required">>

\* what issuer and subject end up as: the caller's when given, else the
\* configuration's issuer and the first 8 characters of its secret
IssuerOf(config, params) ==
    IF Get(params, "iss") \in {Undefined, Null} THEN config.domain ELSE Get(params, "iss")

SubjectOf(config, params) ==
    IF Get(params, "sub") \notin {Undefined, Null}
    THEN Get(params, "sub")
    ELSE IF config.apiKey \in {Undefined, Null}
         THEN Undefined
         ELSE Str(SubSeq(config.apiKey.v, 1,
                         IF Len(config.apiKey.v) < 8 THEN Len(config.apiKey.v) ELSE 8))

\* C1 as stated: a call without title fails with a validation error and
\* without a transport call, whatever the configuration.
C1_AsStated ==
    \A c \in CallIds :
        Started(c) /\ NoTitle(calls[c].params)
            => /\ Failed(c)
               /\ IsValidationError(calls[c].outcome.error)
               /\ ~TransportInvoked(c)

\* C1 (amended): a call whose params have no title fails at once, without
\* signing and without a transport call; the error is the validation error
\* when issuer and subject end up non-empty, and a ConfigurationError when
\* one of them ends up empty.
C1_NoTitleFails ==
    \A c \in CallIds :
        Started(c) /\ NoTitle(calls[c].params)
            => /\ Failed(c)
               /\ ~SignerInvoked(c)
               /\ ~TransportInvoked(c)
               /\ IF \/ Empty(IssuerOf(calls[c].config0, calls[c].params))
                     \/ Empty(SubjectOf(calls[c].config0, calls[c].params))
                  THEN InstanceOfConfigurationError(calls[c].outcome.error)
                  ELSE IsValidationError(calls[c].outcome.error)

C1_Witness ==
    \E c \in CallIds :
        /\ Failed(c)
        /\ NoTitle(calls[c].params)
        /\ IsValidationError(calls[c].outcome.error)
        /\ calls[c].config0.apiKey = Str(KeyLong)

\* C2 as stated: without a secret every call fails with a
\* ConfigurationError and without a transport call.
C2_AsStated ==
    \A c \in CallIds :
        Started(c) /\ calls[c].config0.apiKey \in {Undefined, Null}
            => /\ Failed(c)
               /\ InstanceOfConfigurationError(calls[c].outcome.error)
               /\ ~TransportInvoked(c)

\* C2 (amended): without a secret every call fails at once, without signing
\* and without a transport call; the error is a ConfigurationError, except
\* that a call whose caller gave a non-empty sub, whose issuer ends up
\* non-empty and whose title is missing fails with the validation error.
C2_NoSecretFails ==
    \A c \in CallIds :
        Started(c) /\ calls[c].config0.apiKey \in {Undefined, Null}
            => /\ Failed(c)
               /\ ~SignerInvoked(c)
               /\ ~TransportInvoked(c)
               /\ IF /\ ~Empty(Get(calls[c].params, "sub"))
                     /\ ~Empty(IssuerOf(calls[c].config0, calls[c].params))
                     /\ NoTitle(calls[c].params)
                  THEN IsValidationError(calls[c].outcome.error)
                  ELSE InstanceOfConfigurationError(calls[c].outcome.error)

C2_Witness ==
    \E c \in CallIds :
        /\ Failed(c)
        /\ calls[c].config0.apiKey = Null
        /\ ~Empty(Get(calls[c].params, "sub"))
        /\ ~NoTitle(calls[c].params)
        /\ calls[c].outcome.error = ConfigurationError("OG Pilot API key is missing")

\* C3: what is handed to the signer, and what the URL handed to the
\* transport carries, has a non-empty iss and a non-empty sub; a call whose
\* issuer or subject ends up empty fails with a ConfigurationError and
\* neither signs nor sends.
C3_IssSubPresent ==
    \A c \in CallIds :
        /\ SignerInvoked(c)
               => /\ ~Empty(Get(calls[c].signed.members, "iss"))
                  /\ ~Empty(Get(calls[c].signed.members, "sub"))
        /\ TransportInvoked(c)
               => LET sent == TokenClaims(Get(calls[c].request.url.href[3], "token"))
                  IN  /\ ~Empty(Get(sent, "iss"))
                      /\ ~Empty(Get(sent, "sub"))
        /\ Started(c) /\ (\/ Empty(IssuerOf(calls[c].config0, calls[c].params))
                          \/ Empty(SubjectOf(calls[c].config0, calls[c].params)))
               => /\ Failed(c)
                  /\ InstanceOfConfigurationError(calls[c].outcome.error)
                  /\ ~SignerInvoked(c)
                  /\ ~TransportInvoked(c)

C3_Witness ==
    \E c \in CallIds :
        /\ TransportInvoked(c)
        /\ Get(calls[c].params, "sub") = Undefined
        /\ Get(calls[c].signed.members, "sub") = Str(SubSeq(KeyLong, 1, 8))
        /\ Get(calls[c].signed.members, "iss") = Str(DomainName)

(***************************************************************************)
(* SpecTimer: one client, one call at a time, a valid secret and issuer,   *)
(* over every combination of the two timeouts and every kind of            *)
(* transport.  SpecTimerLive adds what the event loop and the Fetch        *)
(* standard guarantee: a timer that stays armed fires, and a transport     *)
(* that honours its signal rejects once the signal has fired.              *)
(***************************************************************************)
EnvSet == [OG_PILOT_API_KEY |-> Str(KeyLong), OG_PILOT_DOMAIN |-> Str(DomainName)]

TimerUpdaters ==
    {[openTimeoutMs |-> v] : v \in {Undefined, Num(0), Num(DefaultOpenTimeoutMs)}}
        \cup {[readTimeoutMs |-> v] : v \in {Undefined, Num(0), Num(DefaultReadTimeoutMs)}}
        \cup {[fetch |-> Fn(kind)] : kind \in {"fetch", "hang", "stub"}}

TimerOptions == {OptionsOf(j, Undefined) : j \in {Undefined, Bool(TRUE)}}

TimerResponses ==
    {ResponseOf(302, Text("https://example.com/img.png"), Text("")),
     ResponseOf(500, Null, Text(""))}

TimerBodyReads == {Ok("null"), Throw(AbortError)}

InitTimer ==
    /\ heap = <<Configuration(NoOptions, EnvSet)>>
    /\ defaultConfig = 1
    /\ held = {}
    /\ clients = <<>>
    /\ calls = [c \in CallIds |-> IdleCall]
    /\ fallbackRequest = Undefined
    /\ requests = [r \in RequestIds |-> IdleRequest]
    /\ asyncLocalStorage = "null"
    /\ alsStore = Undefined
    /\ frames = <<>>

NextTimer ==
    \/ \E u \in TimerUpdaters : AllIdle /\ Configure(u)
    \/ Len(clients) = 0 /\ DefaultClient
    \/ \E c \in CallIds :
        \/ \E o \in TimerOptions : AllIdle /\ CreateImage(c, 1, ValidParams, o, TRUE)
        \/ SignResolve(c)
        \/ StartRequest(c, Fn("fetch"))
        \/ \E r \in TimerResponses : TransportResolve(c, r)
        \/ \E e \in NetworkErrors : TransportReject(c, e)
        \/ TransportAbort(c)
        \/ TimerFire(c)
        \/ \E read \in TimerBodyReads : ErrBodyRead(c, read)
        \/ \E read \in TimerBodyReads : JsonBodyRead(c, read)
        \/ Return(c)

SpecTimer == InitTimer /\ [][NextTimer]_vars

SpecTimerLive ==
    /\ InitTimer
    /\ [][NextTimer]_vars
    /\ \A c \in CallIds : WF_vars(TimerFire(c)) /\ WF_vars(TransportAbort(c))

(***************************************************************************)
(* SpecShared: the shared default configuration with configure,            *)
(* resetConfig, getConfig, client() and createClient, in any order and at  *)
(* any await of a call; one call at a time, on any client.                 *)
(***************************************************************************)
SharedUpdaters == {[apiKey |-> Str(KeyLong)], [apiKey |-> Str(KeyOther)]}

SharedClientOptions ==
    {[NoOptions EXCEPT !.apiKey = Str(KeyOther), !.domain = Str(DomainName)]}

SharedResponses == {ResponseOf(302, Text("https://example.com/img.png"), Text(""))}

NextShared ==
    \/ \E u \in SharedUpdaters : Configure(u)
    \/ ResetConfig(EnvSet)
    \/ GetConfig
    \/ \E id \in 1..Len(heap), u \in SharedUpdaters : UpdateHeld(id, u)
    \/ DefaultClient
    \/ \E o \in SharedClientOptions : CreateClient(o, EnvSet)
    \/ \E c \in CallIds :
        \/ \E k \in 1..Len(clients) :
               AllIdle /\ CreateImage(c, k, ValidParams, OptionsOf(Undefined, Undefined), TRUE)
        \/ AllIdle /\ DefaultCreateImage(c, ValidParams, OptionsOf(Undefined, Undefined), TRUE)
        \/ SignResolve(c)
        \/ StartRequest(c, Fn("fetch"))
        \/ \E r \in SharedResponses : TransportResolve(c, r)
        \/ Return(c)

SpecShared == InitTimer /\ [][NextShared]_vars

\* a call that got a response
Responded(c) == Settled(c) /\ calls[c].response # Undefined

\* C4 as stated: without json, a response below 400 yields the Location
\* header if present, else the response URL if present (an empty one is
\* absent), else the constructed request URL.
C4_AsStated ==
    \A c \in CallIds :
        Responded(c) /\ ~calls[c].json /\ calls[c].response.status < 400
            => calls[c].outcome =
                 Resolved(IF calls[c].response.location # Null
                          THEN calls[c].response.location
                          ELSE IF calls[c].response.url \notin {Undefined, Text("")}
                          THEN calls[c].response.url
                          ELSE calls[c].request.url)

\* C5: a response with status >= 400 yields, in json mode and without, a
\* RequestError that carries the status, with the status and the body text
\* in its message; the body text is empty when the read failed.
C5_StatusError ==
    \A c \in CallIds :
        Responded(c) /\ calls[c].response.status >= 400
            => /\ calls[c].outcome.state = "rejected"
               /\ InstanceOfRequestError(calls[c].outcome.error)
               /\ calls[c].outcome.error.status = Num(calls[c].response.status)
               /\ Len(calls[c].outcome.error.message) = 4
               /\ calls[c].outcome.error.message[2] = calls[c].response.status
               /\ calls[c].outcome.error.message[4] =
                      (IF calls[c].body.ok THEN calls[c].body.value ELSE "")

C5_Witness ==
    \E c \in CallIds :
        /\ Responded(c)
        /\ calls[c].json
        /\ calls[c].response.status = 500
        /\ ~calls[c].body.ok
        /\ calls[c].outcome.error.status = Num(500)

\* C6: in json mode a response below 400 yields the parsed body; a body
\* that is not JSON yields the parser's own error, which is neither a
\* RequestError nor a ConfigurationError.
C6_JsonBody ==
    \A c \in CallIds :
        Responded(c) /\ calls[c].json /\ calls[c].response.status < 400
                     /\ calls[c].body.ok
            => CASE calls[c].body.value = "{\"ok\":true}" ->
                      calls[c].outcome = Resolved(Obj(<<<<"ok", TRUE>>>>))
                 [] calls[c].body.value = "null" ->
                      calls[c].outcome = Resolved(Null)
                 [] OTHER ->
                      /\ calls[c].outcome.state = "rejected"
                      /\ calls[c].outcome.error.name = "SyntaxError"
                      /\ ~InstanceOfRequestError(calls[c].outcome.error)
                      /\ ~InstanceOfConfigurationError(calls[c].outcome.error)

C6_Witness ==
    \E c \in CallIds :
        /\ Responded(c)
        /\ calls[c].json
        /\ calls[c].body = Ok("boom")
        /\ calls[c].outcome.state = "rejected"
        /\ calls[c].outcome.error.name = "SyntaxError"

\* C8: when the transport's promise rejects, the call rejects with a
\* RequestError: "timed out" for an abort, "request failed" for any other
\* failure; the RequestError of a status >= 400 comes out as it was thrown.
IsAbort(e) == InstanceOfError(e) /\ e.name = "AbortError"

C8_TransportFailure ==
    \A c \in CallIds :
        /\ Settled(c) /\ calls[c].rejection # Undefined
               => /\ calls[c].outcome.state = "rejected"
                  /\ InstanceOfRequestError(calls[c].outcome.error)
                  /\ calls[c].outcome.error.status = Undefined
                  /\ calls[c].outcome.error.message[1] =
                         (IF IsAbort(calls[c].rejection)
                          THEN "OG Pilot request timed out: "
                          ELSE IF InstanceOfError(calls[c].rejection)
                          THEN "OG Pilot request failed: "
                          ELSE "OG Pilot request failed.")
        /\ Responded(c) /\ calls[c].response.status >= 400
               => calls[c].outcome =
                      Rejected(StatusError(calls[c].response.status,
                                           IF calls[c].body.ok THEN calls[c].body.value ELSE ""))

C8_Witness ==
    \E c \in CallIds :
        /\ Settled(c)
        /\ calls[c].aborted
        /\ calls[c].rejection = AbortError
        /\ calls[c].outcome.error.message[1] = "OG Pilot request timed out: "

\* C7: a call that has handed its request to a transport that never
\* settles on its own, under a deadline above 0, ends: the signal fires and
\* the call rejects with the "timed out" RequestError.
HangsUnderDeadline(c) ==
    /\ calls[c].pc = "fetching"
    /\ calls[c].request.fetch.kind = "hang"
    /\ calls[c].timeoutMs # Undefined
    /\ calls[c].timeoutMs.v > 0

TimedOut(c) ==
    /\ Failed(c)
    /\ calls[c].aborted
    /\ InstanceOfRequestError(calls[c].outcome.error)
    /\ calls[c].outcome.error.message[1] = "OG Pilot request timed out: "

C7_DeadlineEndsCall == \A c \in CallIds : HangsUnderDeadline(c) ~> TimedOut(c)

C7_Witness ==
    \E c \in CallIds :
        /\ TimedOut(c)
        /\ calls[c].request.fetch.kind = "hang"
        /\ calls[c].timer = "fired"
        /\ calls[c].config0.openTimeoutMs = Undefined

\* C9: once request() has exited (the call reads the json body, or has
\* settled) the timer it armed is not armed any more, so it cannot fire.
C9_TimerDisarmed ==
    \A c \in CallIds :
        calls[c].pc \in {"jsonBody", "done"} => calls[c].timer # "armed"

C9_Witness ==
    \E c \in CallIds :
        /\ Responded(c)
        /\ calls[c].response.status >= 400
        /\ calls[c].timer = "cleared"

\* C10: a call reads the Configuration instance its client was constructed
\* with, whatever the shared default is by then; client() binds the
\* instance that is the default when it runs, and no operation rebinds a
\* client.
C10_ClientKeepsConfig ==
    [][/\ \A k \in 1..Len(clients) : k <= Len(clients') /\ clients'[k] = clients[k]
       /\ Len(clients') > Len(clients) /\ heap' = heap
              => clients'[Len(clients')] = defaultConfig
       /\ \A c \in CallIds :
              calls[c].pc = "idle" /\ calls'[c].pc # "idle"
                  => /\ calls'[c].config0 = heap[clients'[calls'[c].client]]
                     /\ calls'[c].secret = heap[clients'[calls'[c].client]].apiKey
      ]_vars

\* after a reset, with a client of the first instance and a client of the
\* instance that replaced it: a call on the former has read the secret the
\* first instance was given since it was constructed
C10_Witness ==
    /\ defaultConfig = 2
    /\ heap[1].apiKey = Str(KeyOther)
    /\ heap[2].apiKey = Str(KeyLong)
    /\ \E k \in 1..Len(clients) : clients[k] = 2
    /\ \E c \in CallIds :
           /\ Started(c)
           /\ clients[calls[c].client] = 1
           /\ calls[c].secret = Str(KeyOther)

(***************************************************************************)
(* SpecPayload: one client, one call at a time, a valid secret and issuer, *)
(* over the origins a configuration may hold, the keys a caller may put    *)
(* in params besides the title, and the values of the iat option.          *)
(***************************************************************************)
PrefixedBaseUrl == UrlString("https://og.example.com", "/prefix/v2/", "?a=1&token=old")

PayloadUpdaters == {[baseUrl |-> u] : u \in {DEFAULT_BASE_URL, PrefixedBaseUrl}}

MillisNow == BigNum(1700000000, 123)
SecondsNow == BigNum(1700000, 0)

ExtraKeys ==
    {<<>>,
     <<<<"path", Text("/blog/a?x=1")>>>>,
     <<<<"iat", MillisNow>>>>,
     <<<<"iat", FracNum(1700000, 0, 5)>>>>,
     <<<<"iat", SecondsNow>>, <<"path", Text("/blog/a?x=1")>>>>,
     <<<<"iss", Null>>, <<"sub", Str(<<"m", "e">>)>>>>,
     <<<<"template", Text("page")>>, <<"iss", Str(<<"i", "s">>)>>>>}

PayloadParams == {ValidParams \o extra : extra \in ExtraKeys}

IatInputs ==
    {Undefined, Null,
     DateOf(1700000000, 500), DateOf(-2, 500),
     BigNum(IatMillisThresholdK, 0), FracNum(IatMillisThresholdK, 0, 5),
     BigNum(IatMillisThresholdK, 1), MillisNow,
     SecondsNow, FracNum(1700000, 999, 9), BigNum(0, 0)}

PayloadOptions == {OptionsOf(Undefined, i) : i \in IatInputs}

NextPayload ==
    \/ \E u \in PayloadUpdaters : AllIdle /\ Configure(u)
    \/ Len(clients) = 0 /\ DefaultClient
    \/ \E c \in CallIds :
        \/ \E p \in PayloadParams, o \in PayloadOptions :
               AllIdle /\ CreateImage(c, 1, p, o, TRUE)
        \/ SignResolve(c)
        \/ StartRequest(c, Fn("fetch"))
        \/ \E r \in SharedResponses : TransportResolve(c, r)
        \/ Return(c)

SpecPayload == InitTimer /\ [][NextPayload]_vars

\* C11: when the iat option is given, the iat that is signed is a whole
\* number: the epoch milliseconds over 1000, rounded down, for a Date; the
\* value over 1000, rounded down, for a number above 100,000,000,000; the
\* value rounded down for any other number, 100,000,000,000 included.
C11_IatNormalized ==
    \A c \in CallIds :
        SignerInvoked(c) /\ calls[c].iat \notin {Undefined, Null}
            => LET given == calls[c].iat
                   signed == Get(calls[c].signed.members, "iat")
               IN  /\ signed.t = "number"
                   /\ signed.f = 0
                   /\ signed.r \in 0..999
                   /\ IF given.t = "date"
                      THEN signed.k * 1000 + signed.r = given.k
                      ELSE IF \/ given.k > 100000000
                              \/ given.k = 100000000 /\ (given.r > 0 \/ given.f > 0)
                      THEN signed.k * 1000 + signed.r = given.k
                      ELSE signed.k = given.k /\ signed.r = given.r

\* the option is exactly 100,000,000,000 and is signed as it is
C11_Witness ==
    \E c \in CallIds :
        /\ TransportInvoked(c)
        /\ calls[c].iat = BigNum(100000000, 0)
        /\ Get(calls[c].signed.members, "iat") = BigNum(100000000, 0)

\* C12: the URL handed to the transport is the configured origin, the path
\* /api/v1/images and one query parameter, token, whose value is the signed
\* token: nothing of the configured origin's own path or query and no key
\* of params is in it.
C12_UrlShape ==
    \A c \in CallIds :
        TransportInvoked(c)
            => LET href == calls[c].request.url.href
               IN  /\ href[1] = calls[c].config0.baseUrl.origin
                   /\ href[2] = "/api/v1/images"
                   /\ Len(href[3]) = 1
                   /\ href[3][1][1] = "token"
                   /\ href[3][1][2] = SignJwt(calls[c].signed.members, calls[c].secret.v)

\* the configured origin carries a path prefix and a query string, and
\* params carries a path
C12_Witness ==
    \E c \in CallIds :
        /\ TransportInvoked(c)
        /\ calls[c].config0.baseUrl = PrefixedBaseUrl
        /\ HasKey(calls[c].params, "path")
        /\ calls[c].request.url.href[1] = "https://og.example.com"

\* C14 as stated: the deadline is open-timeout + read-timeout; no timer is
\* armed when both are absent from the configuration, and a timer is armed
\* whenever one of them is present, a sum of 0 included.
C14_AsStated ==
    \A c \in CallIds :
        calls[c].pc = "fetching"
            => LET open == calls[c].config0.openTimeoutMs
                   read == calls[c].config0.readTimeoutMs
               IN  IF open = Undefined /\ read = Undefined
                   THEN calls[c].timer = "none" /\ ~calls[c].aborted
                   ELSE /\ calls[c].timer \in {"armed", "fired"}
                        /\ calls[c].timeoutMs =
                               Num((IF open = Undefined THEN 0 ELSE open.v)
                                   + (IF read = Undefined THEN 0 ELSE read.v))

\* C15 as stated: with a non-empty issuer and secret in the configuration
\* and a title, the call signs; an iss that is absent, null or the empty
\* string is signed as the configuration's issuer, a sub that is absent,
\* null or the empty string as the first 8 characters of the secret, and
\* any other iss or sub as the caller gave it.
C15_AsStated ==
    \A c \in CallIds :
        /\ Started(c)
        /\ ~NoTitle(calls[c].params)
        /\ ~Empty(calls[c].config0.domain)
        /\ ~Empty(calls[c].config0.apiKey)
        => /\ SignerInvoked(c)
           /\ Get(calls[c].signed.members, "iss") =
                  (IF Empty(Get(calls[c].params, "iss"))
                   THEN calls[c].config0.domain
                   ELSE Get(calls[c].params, "iss"))
           /\ Get(calls[c].signed.members, "sub") =
                  (IF Empty(Get(calls[c].params, "sub"))
                   THEN Str(SubSeq(calls[c].config0.apiKey.v, 1, 8))
                   ELSE Get(calls[c].params, "sub"))

\* C16 as stated: an iat that is signed is a whole number of seconds, not
\* above 100,000,000,000, whether it came from the iat option or from an
\* iat key of params.
C16_AsStated ==
    \A c \in CallIds :
        SignerInvoked(c) /\ HasKey(calls[c].signed.members, "iat")
            => LET signed == Get(calls[c].signed.members, "iat")
               IN  /\ signed.t = "number"
                   /\ signed.f = 0
                   /\ \/ signed.k < 100000000
                      \/ signed.k = 100000000 /\ signed.r = 0

\* C19: the claims handed to the signer hold every key of params other than
\* iat, iss and sub with the caller's value, and no key besides those of
\* params and iat, iss, sub; iat is the caller's unless the iat option is
\* given, iss and sub are the caller's unless absent or null; and the
\* caller's object is after the call what it was before.
FrameKeys == {"iat", "iss", "sub"}

ConcurrentUpdaters == {[baseUrl |-> u] : u \in {DEFAULT_BASE_URL, PrefixedBaseUrl}}

ConcurrentParams == {ValidParams, ValidParams \o <<<<"path", Text("/blog/a?x=1")>>>>}

NextConcurrent ==
    \/ \E u \in ConcurrentUpdaters : Configure(u)
    \/ Len(clients) = 0 /\ DefaultClient
    \/ \E c \in CallIds :
        \/ \E p \in ConcurrentParams :
               CreateImage(c, 1, p, OptionsOf(Undefined, Undefined), TRUE)
        \/ SignResolve(c)
        \/ StartRequest(c, Fn("fetch"))
        \/ \E r \in SharedResponses : TransportResolve(c, r)
        \/ TransportReject(c, PlainError("TypeError", "fetch failed"))
        \/ TransportAbort(c)
        \/ TimerFire(c)
        \/ Return(c)

SpecConcurrent == InitTimer /\ [][NextConcurrent]_vars

\* the token a call has put in its URL
TokenOf(c) == Get(calls[c].url.query, "token")
HasToken(c) == calls[c].url # Undefined

C17_AsStated ==
    \A c \in CallIds :
        TransportInvoked(c)
            => /\ calls[c].secret = calls[c].config0.apiKey
               /\ calls[c].request.url.href[1] = calls[c].config0.baseUrl.origin
               /\ calls[c].request.fetch = Coalesce(calls[c].config0.fetch, Fn("fetch"))
               /\ calls[c].timeoutMs = TotalTimeoutMs(calls[c].config0)

\* C18: a step of one call leaves every other call as it was; a call's
\* signal fires only when its own timer has fired, its transport is aborted
\* only after its own signal fired, and what a call settles with is what
\* its own response or its own transport's rejection gives.
C18_CallsIndependent ==
    [][/\ \A c, d \in CallIds :
              c # d /\ calls'[c] # calls[c] => calls'[d] = calls[d]
       /\ \A c \in CallIds :
              /\ calls'[c].aborted => calls'[c].timer = "fired"
              /\ calls'[c].rejection = AbortError /\ calls[c].rejection = Undefined
                     => calls[c].aborted /\ calls[c].timer = "fired"
              /\ calls[c].pc = "fetching" /\ calls'[c].pc = "done"
                     => calls'[c].outcome =
                            (IF calls'[c].rejection = AbortError
                             THEN Rejected(RequestError(
                                      <<"OG Pilot request timed out: ",
                                        "This operation was aborted">>, Undefined))
                             ELSE IF calls'[c].rejection # Undefined
                             THEN Rejected(RequestError(
                                      <<"OG Pilot request failed: ", "fetch failed">>, Undefined))
                             ELSE Resolved(calls'[c].response.location))
      ]_vars

\* two calls wait for their responses; the deadline of one has fired, the
\* other's timer is armed and its signal has not fired
C18_Witness ==
    \E c, d \in CallIds :
        /\ c # d
        /\ calls[c].pc = "fetching" /\ calls[c].timer = "fired" /\ calls[c].aborted
        /\ calls[d].pc = "fetching" /\ calls[d].timer = "armed" /\ ~calls[d].aborted

(***************************************************************************)
(* SpecExpress: an Express application with the middleware installed,      *)
(* handling requests together: a handler may call getCurrentPath() at any  *)
(* time between its middleware and its return.                             *)
(***************************************************************************)
ExpressRequestOf(originalUrl, url) == [originalUrl |-> originalUrl, url |-> url]

ExpressRequests ==
    {ExpressRequestOf(Text("/a?x=1"), Text("/a?x=1")),
     ExpressRequestOf(Text("/admin/b"), Text("/b")),
     ExpressRequestOf(Undefined, Text("/c"))}

EnvPaths == {Undefined, Text("/from-env")}

NextExpress ==
    \E r \in RequestIds :
        \/ \E req \in ExpressRequests : ExpressMiddleware(r, req)
        \/ \E asyncHooks \in BOOLEAN, envPath \in EnvPaths :
               HandlerGetCurrentPath(r, asyncHooks, envPath)
        \/ HandlerReturn(r)

SpecExpress == InitTimer /\ [][NextExpress]_vars

\* C20 as stated: what getCurrentPath() returns in the handler of a request
\* is that request's originalUrl, or its url when it has no originalUrl.
C20_AsStated ==
    \A r \in RequestIds :
        requests[r].seen # NotCalled
            => requests[r].seen =
                   (IF requests[r].req.originalUrl \notin {Undefined, Text("")}
                    THEN requests[r].req.originalUrl
                    ELSE requests[r].req.url)

\* C22: when sub is defaulted, the sub inside the token is the first 8
\* characters of the key the token is signed with, whatever configure does
\* to the secret while the call is in flight.
C22_SubMatchesSigningKey ==
    \A c \in CallIds :
        HasToken(c) /\ Get(calls[c].params, "sub") \in {Undefined, Null}
            => LET key == TokenOf(c).segments[3].b64url.key
                   sub == Get(TokenClaims(TokenOf(c)), "sub")
               IN  /\ sub.t = "string"
                   /\ Len(sub.v) = (IF Len(key) < 8 THEN Len(key) ELSE 8)
                   /\ \A i \in 1..Len(sub.v) : sub.v[i] = key[i]

\* the call has its token, signed with the secret it found, and the
\* configuration of its client holds another secret by now
C22_Witness ==
    \E c \in CallIds :
        /\ calls[c].pc = "built"
        /\ Get(calls[c].params, "sub") = Undefined
        /\ calls[c].secret = Str(KeyLong)
        /\ ConfigOf(c).apiKey = Str(KeyOther)
        /\ Get(TokenClaims(TokenOf(c)), "sub") = Str(<<"s", "k", "_", "l", "i", "v", "e", "_">>)

\* what C23 says of the json body read: once a response below 400 is
\* there the timer is not armed, the signal and the timer stay as they are
\* while the body is read, and a failure of that read is what the call
\* rejects with, as it was raised.
JsonReadOutsideDeadline(c) ==
    /\ calls[c].pc = "fetching" /\ calls'[c].response # Undefined
                                /\ calls'[c].response.status < 400
           => calls'[c].timer # "armed"
    /\ calls[c].pc = "jsonBody"
           => /\ calls[c].timer # "armed"
              /\ calls'[c].timer = calls[c].timer
              /\ calls'[c].aborted = calls[c].aborted
    /\ calls[c].pc = "jsonBody" /\ calls'[c].pc = "done" /\ ~calls'[c].body.ok
           => /\ calls'[c].outcome = Rejected(calls'[c].body.error)
              /\ ~InstanceOfRequestError(calls'[c].outcome.error)

\* the signal of call c fires in this step
SignalFires(c) == ~calls[c].aborted /\ calls'[c].aborted

\* C23 as stated: the signal fires only while the call waits for the
\* transport promise; and the json body is read outside the deadline.
C23_AsStated ==
    [][\A c \in CallIds :
           /\ SignalFires(c) => calls[c].pc = "fetching"
           /\ JsonReadOutsideDeadline(c)
      ]_vars

\* C23 (amended): the signal fires only while the call waits for the
\* transport promise or, after a response with status >= 400, for the body
\* of that response; and the json body is read outside the deadline.
C23_DeadlineScope ==
    [][\A c \in CallIds :
           /\ SignalFires(c) => calls[c].pc \in {"fetching", "errBody"}
           /\ JsonReadOutsideDeadline(c)
      ]_vars

\* in json mode, under a deadline, the body read failed with an AbortError:
\* the call rejected with that error, its timer cleared, its signal unfired
C23_Witness ==
    \E c \in CallIds :
        /\ Settled(c)
        /\ calls[c].json
        /\ calls[c].response # Undefined /\ calls[c].response.status < 400
        /\ calls[c].body = Throw(AbortError)
        /\ calls[c].outcome = Rejected(AbortError)
        /\ calls[c].timer = "cleared"
        /\ ~calls[c].aborted

(***************************************************************************)
(* SpecContext: withRequestContext calls nested in one another, with       *)
(* either storage, after any setCurrentRequest or clearCurrentRequest made *)
(* outside of them.                                                        *)
(***************************************************************************)
UrlInfo(url) == [t |-> "object", url |-> url, path |-> Undefined]

ContextRequests == {UrlInfo(Text("/a?x=1")), UrlInfo(Text("/admin/b")), UrlInfo(Text("/c"))}

NextContext ==
    \/ \E request \in ContextRequests : frames = <<>> /\ SetCurrentRequest(request)
    \/ frames = <<>> /\ ClearCurrentRequest
    \/ \E request \in ContextRequests, asyncHooks \in BOOLEAN :
           WithRequestContext(request, asyncHooks)
    \/ \E threw \in BOOLEAN : CallbackExit(threw)

SpecContext == InitTimer /\ [][NextContext]_vars

\* what getCurrentRequest() returns, once the storage exists
CurrentRequest == GetCurrentRequest(TRUE)

\* C21: while a callback runs, getCurrentRequest() returns the request of
\* the innermost withRequestContext call around it; when a callback has
\* returned or thrown, getCurrentRequest() returns what it returned just
\* before that withRequestContext call.
C21_ContextScoped ==
    [][/\ frames' # <<>> => CurrentRequest' = frames'[Len(frames')].request
       /\ Len(frames') < Len(frames) => CurrentRequest' = frames[Len(frames)].before
      ]_vars

\* three calls nested, with the fallback storage, after a setCurrentRequest:
\* the innermost request is the current one, and differs from the others
C21_Witness ==
    /\ asyncLocalStorage = "fallback"
    /\ Len(frames) = 3
    /\ frames[1].before = UrlInfo(Text("/c"))
    /\ frames[1].request = UrlInfo(Text("/a?x=1"))
    /\ frames[2].request = UrlInfo(Text("/admin/b"))
    /\ frames[3].request = UrlInfo(Text("/a?x=1"))
    /\ CurrentRequest = UrlInfo(Text("/a?x=1"))

====
